---- MODULE Spec2Model ----
(***************************************************************************)
(* Model of data/build_spreadsheets_site.py: the driver main(), the        *)
(* Workbook Renderer render_workbook(), the Index Builder render_index()   *)
(* and the shared sanitize_filename().                                     *)
(*                                                                         *)
(* Text is modelled character by character: a Python str is a sequence of  *)
(* one-character strings, so that sanitising, escaping and anchor          *)
(* derivation are computed, not assumed.  Characters are the printable     *)
(* ASCII range; str.isalnum and str.lower are modelled on that range.      *)
(* A path is a sequence of components, each component a str.               *)
(* Cell grids of the sheets are not modelled: a sheet is its name.         *)
(***************************************************************************)
EXTENDS Integers, Sequences, FiniteSets, TLC

VARIABLES
  pc,          \* position of the running entry point
  dir,         \* names of the entries of --xlsx-dir
  corrupt,     \* entries of dir that pandas/openpyxl cannot parse
  book,        \* sheet_names of each entry of dir, in stored order
  out_arg,     \* --out-dir, as path components
  sheets_arg,  \* --sheets-dir, as the components of the raw string
  dirs0,       \* directories of the output tree before the run
  dirs,        \* directories existing in the output tree
  files,       \* files of the output tree: path -> document
  found,       \* main's list `found` / render_index's xlsx_files
  k,           \* index of the workbook the render loop is at
  stdout,      \* lines printed so far
  events,      \* calls and writes, in the order they happened
  status,      \* "running", "ok" (exit 0), "exit1" (SystemExit), "traceback"
  arg,         \* argument of a direct call of sanitize_filename
  ret          \* its return value

vars == <<pc, dir, corrupt, book, out_arg, sheets_arg, dirs0, dirs, files, found, k,
          stdout, events, status, arg, ret>>

(***************************************************************************)
(* Characters                                                              *)
(***************************************************************************)

\* The printable ASCII characters in code-point order, 32 .. 126.  Code points
\* 92 and 96 are held by placeholders that occur in no modelled text.
AsciiPrintable ==
  <<
     " ", "!", "\"", "#", "$", "%", "&", "'", "(", ")", "*", "+", ",", "-", ".", "/",
     "0", "1", "2", "3", "4", "5", "6", "7", "8", "9", ":", ";", "<", "=", ">", "?",
     "@", "A", "B", "C", "D", "E", "F", "G", "H", "I", "J", "K", "L", "M", "N", "O",
     "P", "Q", "R", "S", "T", "U", "V", "W", "X", "Y", "Z", "[", "<backslash>", "]", "^", "_",
     "<backtick>", "a", "b", "c", "d", "e", "f", "g", "h", "i", "j", "k", "l", "m", "n", "o",
     "p", "q", "r", "s", "t", "u", "v", "w", "x", "y", "z", "{", "|", "}", "~"
  >>

\* ord(c)
Ord(c) == 31 + (CHOOSE i \in 1..Len(AsciiPrintable) : AsciiPrintable[i] = c)

\* chr(n)
Chr(n) == AsciiPrintable[n - 31]

\* str.isalnum for one character
IsAlnum(c) ==
  LET o == Ord(c) IN
    \/ (o >= 48 /\ o <= 57)
    \/ (o >= 65 /\ o <= 90)
    \/ (o >= 97 /\ o <= 122)

\* str.lower for one character
LowerChar(c) ==
  LET o == Ord(c) IN IF o >= 65 /\ o <= 90 THEN Chr(o + 32) ELSE c

\* str.lower
Lower(s) == [i \in 1..Len(s) |-> LowerChar(s[i])]

\* the concatenation "".join(parts)
RECURSIVE Join(_)
Join(parts) ==
  IF parts = <<>> THEN <<>> ELSE Head(parts) \o Join(Tail(parts))

\* s.rfind("."), 0-based, -1 when there is none
RFindDot(s) ==
  LET at == {i \in 1..Len(s) : s[i] = "."} IN
    IF at = {} THEN -1
    ELSE (CHOOSE i \in at : \A j \in at : j <= i) - 1

\* s.strip("-")
StripHyphens(s) ==
  LET keep == {i \in 1..Len(s) : s[i] # "-"} IN
    IF keep = {} THEN <<>>
    ELSE LET lo == CHOOSE i \in keep : \A j \in keep : i <= j
             hi == CHOOSE i \in keep : \A j \in keep : j <= i
         IN SubSeq(s, lo, hi)

\* s < t for Python strings: lexicographic by code point
RECURSIVE StrLess(_, _)
StrLess(s, t) ==
  IF t = <<>> THEN FALSE
  ELSE IF s = <<>> THEN TRUE
  ELSE IF Head(s) # Head(t) THEN Ord(Head(s)) < Ord(Head(t))
  ELSE StrLess(Tail(s), Tail(t))

\* s.endswith(suffix)
EndsWith(s, suffix) ==
  /\ Len(s) >= Len(suffix)
  /\ SubSeq(s, Len(s) - Len(suffix) + 1, Len(s)) = suffix

\* html.escape for one character (quote=True)
EscapeChar(c) ==
  CASE c = "&"  -> <<"&","a","m","p",";">>
    [] c = "<"  -> <<"&","l","t",";">>
    [] c = ">"  -> <<"&","g","t",";">>
    [] c = "\"" -> <<"&","q","u","o","t",";">>
    [] c = "'"  -> <<"&","#","x","2","7",";">>
    [] OTHER    -> <<c>>

\* html.escape
HtmlEscape(s) == Join([i \in 1..Len(s) |-> EscapeChar(s[i])])

(***************************************************************************)
(* Program constants                                                       *)
(***************************************************************************)

\* ORDERED_XLSX, the desired ordering
ORDERED_XLSX ==
  <<
     <<"a","c","t","u","a","l","e","x","p","e","c","t","e","d","g","r","a","d","e","s",".","x","l","s","x">>,
     <<"a","l","t","i","n","s","t","r","u","m","e","n","t",".","x","l","s","x">>,
     <<"b","a","s","e","d","a","t","a",".","x","l","s","x">>,
     <<"b","o","o","t","s","t","r","a","p","_","p","a","r","a","m","s",".","x","l","s","x">>,
     <<"b","p","r","e","f",".","x","l","s","x">>,
     <<"b","s","t","a","r","t","b","u","n","d","l","e","d",".","x","l","s","x">>,
     <<"b","u","n","d","l","e","d","d","a","t","a",".","x","l","s","x">>,
     <<"b","u","n","d","l","e","d","s","e",".","x","l","s","x">>,
     <<"b","u","n","d","l","e","d","_","s","t","r","u","c","t","u","r","a","l","_","p","a","r","a","m",".","x","l","s","x">>,
     <<"c","h","o","i","c","e","s","e","t","e","v","o","l","u","t","i","o","n",".","x","l","s","x">>,
     <<"e","f","f","o","r","t","p","a","r","a","m","s",".","x","l","s","x">>,
     <<"e","f","f","o","r","t","r","a","w",".","x","l","s","x">>,
     <<"e","f","f","o","r","t","_","d","a","t","a",".","x","l","s","x">>,
     <<"e","n","r","l","_","o","r","d","e","r",".","x","l","s","x">>,
     <<"e","s","t","i","m","a","t","e","s","_","j","o","i","n","t","_","t","h","r","e","e","t","y","p","e","_","c","a","p",".","x","l","s","x">>,
     <<"e","s","t","i","m","a","t","e","s","_","j","o","i","n","t","_","t","h","r","e","e","t","y","p","e","_","s","t","a","r","t",".","x","l","s","x">>,
     <<"e","s","t","i","m","a","t","e","s","_","j","o","i","n","t","_","t","h","r","e","e","t","y","p","e","_","s","t","a","r","t","_","w","f","p",".","x","l","s","x">>,
     <<"e","s","t","i","m","a","t","e","s","_","j","o","i","n","t","_","t","h","r","e","e","t","y","p","e","_","w","f","p",".","x","l","s","x">>,
     <<"e","v","a","l","u","a","t","i","o","n","_","c","l","a","s","s",".","x","l","s","x">>,
     <<"G","E","g","r","a","d","e","3","r","e","s","u","l","t","s",".","x","l","s","x">>,
     <<"G","E","g","r","a","d","e","3","r","e","s","u","l","t","s","_","n","o","e","f","f",".","x","l","s","x">>,
     <<"G","E","g","r","a","d","e","3","r","e","s","u","l","t","s","_","n","o","e","f","f","l","d",".","x","l","s","x">>,
     <<"G","E","g","r","a","d","e","3","r","e","s","u","l","t","s","_","n","u","2",".","x","l","s","x">>,
     <<"G","E","g","r","a","d","e","3","s","t","a","r","t","_","n","o","e","f","f",".","x","l","s","x">>,
     <<"G","E","g","r","a","d","e","3","s","t","a","r","t","_","n","o","e","f","f","l","d",".","x","l","s","x">>,
     <<"G","E","t","a","b","l","e","s","_","e","f","f","o","r","t",".","x","l","s","x">>,
     <<"G","E","t","a","b","l","e","s","_","n","o","e","f","f",".","x","l","s","x">>,
     <<"G","E","_","c","o","u","n","t","e","r","f","a","c","t","s","_","d","a","t","a","_","s","o","r","t",".","x","l","s","x">>,
     <<"g","r","i","d","d","e","r","i","v",".","x","l","s","x">>,
     <<"g","r","i","d","d","e","r","i","v","a","c","t",".","x","l","s","x">>,
     <<"i","n","s","t","r","u","c","t","o","r","r","a","n","k",".","x","l","s","x">>,
     <<"m","u","l","t","i","s","e","m","e","v","a","l","u","a","t","i","o","n",".","x","l","s","x">>,
     <<"n","u","m","b","e","r","s",".","x","l","s","x">>,
     <<"P","E","N","o","G","r","a","d","e","s",".","x","l","s","x">>,
     <<"P","E","r","e","s","u","l","t","s",".","x","l","s","x">>,
     <<"P","E","_","c","o","u","n","t","e","r","f","a","c","t","s","_","d","a","t","a",".","x","l","s","x">>,
     <<"p","r","o","f","d","e","c","o","m","p",".","x","l","s","x">>,
     <<"p","r","o","f","p","r","e","f","s",".","x","l","s","x">>,
     <<"p","r","o","f","r","e","d","u","c","e","d",".","x","l","s","x">>,
     <<"p","r","o","f","r","e","s","u","l","t","s",".","x","l","s","x">>,
     <<"r","o","b","u","s","t","r","e","s","u","l","t","s",".","x","l","s","x">>,
     <<"r","o","o","m","_","c","a","p","a","c","i","t","y",".","x","l","s","x">>,
     <<"s","t","u","d","e","n","t","_","d","a","t","a",".","x","l","s","x">>,
     <<"s","u","p","e","r","_","l","i","s","t",".","x","l","s","x">>,
     <<"t","1","2",".","x","l","s","x">>,
     <<"t","4",".","x","l","s","x">>,
     <<"t","a","b","l","e","s","_","1","t","o","4",".","x","l","s","x">>,
     <<"t","a","b","l","e","s","_","6","t","o","1","4",".","x","l","s","x">>,
     <<"t","a","b","l","e","s","_","a","p","p","B",".","x","l","s","x">>,
     <<"t","a","b","l","e","s","_","a","p","p","D",".","x","l","s","x">>
  >>

DotXlsx == <<".","x","l","s","x">>
DotHtml == <<".","h","t","m","l">>
SheetPrefix == <<"s","h","e","e","t","-">>
IndexName == <<"s","p","r","e","a","d","s","h","e","e","t","s",".","h","t","m","l">>
DotDot == <<".",".">>
Dot == <<".">>
\* back_href="../spreadsheets.html"
BackHref == <<".", ".", "/">> \o IndexName

(***************************************************************************)
(* sanitize_filename                                                       *)
(***************************************************************************)

\* Path(name).stem for a name without "/" (pathlib up to Python 3.13:
\* the last suffix is cut when its dot is neither first nor last)
Stem(name) ==
  LET i == RFindDot(name) IN
    IF 0 < i /\ i < Len(name) - 1 THEN SubSeq(name, 1, i) ELSE name

\* SafeChar gone wrong: the dot is taken for a safe character
SafeChar_KeepsDot(ch) ==
  IF IsAlnum(ch) \/ ch \in {"-", "_", "."} THEN ch ELSE "_"

\* ch if (ch.isalnum() or ch in "-_") else "_"
SafeChar(ch) == IF IsAlnum(ch) \/ ch \in {"-", "_"} THEN ch ELSE "_"

sanitize_filename(name) ==
  LET stem == Stem(name)
      safe == [i \in 1..Len(stem) |-> SafeChar(stem[i])]
  IN safe \o DotHtml

(***************************************************************************)
(* Paths                                                                   *)
(***************************************************************************)

\* s.split("/")
RECURSIVE SplitSlash(_)
SplitSlash(s) ==
  LET at == {i \in 1..Len(s) : s[i] = "/"} IN
    IF at = {} THEN <<s>>
    ELSE LET i == CHOOSE x \in at : \A y \in at : x <= y
         IN <<SubSeq(s, 1, i - 1)>> \o SplitSlash(SubSeq(s, i + 1, Len(s)))

IsRealComponent(c) == c # <<>> /\ c # Dot

\* Path(s) for a relative s: pathlib drops empty and "." components and
\* keeps the others
PathOf(s) == SelectSeq(SplitSlash(s), IsRealComponent)

\* the paths of p and of all its parents, the current directory included
Prefixes(p) == {SubSeq(p, 1, n) : n \in 0..Len(p)}

\* p.parent, for a p with at least one component
Parent(p) == SubSeq(p, 1, Len(p) - 1)

\* out_dir = Path(args.out_dir)
OutDir(o) == PathOf(o)

\* sheets_dir = out_dir / args.sheets_dir
SheetsDir(o, sd) == OutDir(o) \o PathOf(sd)

\* sheets_dir / sanitize_filename(p.name)
OutPage(o, sd, name) == Append(SheetsDir(o, sd), sanitize_filename(name))

\* out_dir / "spreadsheets.html"
IndexPath(o) == Append(OutDir(o), IndexName)

\* WriteText gone wrong: a file that exists is left as it is
WriteText_KeepsExisting(fs, path, doc) ==
  [q \in (DOMAIN fs) \cup {path} |-> IF q \in DOMAIN fs THEN fs[q] ELSE doc]

\* the files after path.write_text(doc): created, or replaced whole
WriteText(fs, path, doc) ==
  [q \in (DOMAIN fs) \cup {path} |-> IF q = path THEN doc ELSE fs[q]]

(***************************************************************************)
(* render_workbook                                                         *)
(***************************************************************************)

\* Hyphenate gone wrong: only blanks are replaced
Hyphenate_BlanksOnly(s) == [i \in 1..Len(s) |-> IF s[i] = " " THEN "-" ELSE s[i]]

\* "".join(ch if ch.isalnum() else "-" for ch in s)
Hyphenate(s) == [i \in 1..Len(s) |-> IF IsAlnum(s[i]) THEN s[i] ELSE "-"]

\* the anchor of the navigation loop
NavAnchor(s) == SheetPrefix \o Lower(StripHyphens(Hyphenate(s)))

\* SectionAnchor gone wrong: the section loop forgets to lowercase
SectionAnchor_NoLower(s) == SheetPrefix \o StripHyphens(Hyphenate(s))

\* the anchor of the section loop
SectionAnchor(s) == SheetPrefix \o Lower(StripHyphens(Hyphenate(s)))

\* nav_links: one <a href="#anchor">escaped name</a> per sheet
NavLinks(sheet_names) ==
  [i \in 1..Len(sheet_names) |->
     [el |-> "a", id |-> NavAnchor(sheet_names[i]),
      text |-> HtmlEscape(sheet_names[i])]]

\* one <div class="section" id="anchor"><h2>escaped name</h2>... per sheet
Sections(sheet_names) ==
  [i \in 1..Len(sheet_names) |->
     [el |-> "section", id |-> SectionAnchor(sheet_names[i]),
      text |-> HtmlEscape(sheet_names[i])]]

\* "".join(parts): the header with title, h1 and back-link, then the
\* navigation block, then the sections, in the order they are emitted
PageDoc(name, sheet_names, back_href) ==
  [kind  |-> "page",
   title |-> HtmlEscape(name),
   back  |-> back_href,
   body  |-> NavLinks(sheet_names) \o Sections(sheet_names)]

(***************************************************************************)
(* render_index                                                            *)
(***************************************************************************)

\* one <li><a href="{sheets_dir}/{page}">escaped name</a></li>
IndexItem(name, sd) ==
  [href |-> sd \o <<"/">> \o sanitize_filename(name),
   text |-> HtmlEscape(name)]

\* IndexItems gone wrong: a name is listed once, however often it is given
IndexItems_Dedup(xlsx_files, sd) ==
  LET first(i) == \A j \in 1..(i - 1) : xlsx_files[j] # xlsx_files[i]
      keep == SelectSeq([i \in 1..Len(xlsx_files) |-> i], first)
  IN [i \in 1..Len(keep) |-> IndexItem(xlsx_files[keep[i]], sd)]

\* items, in the order of xlsx_files
IndexItems(xlsx_files, sd) ==
  [i \in 1..Len(xlsx_files) |-> IndexItem(xlsx_files[i], sd)]

IndexDoc(xlsx_files, sd) ==
  [kind |-> "index", items |-> IndexItems(xlsx_files, sd)]

(***************************************************************************)
(* Inputs                                                                  *)
(***************************************************************************)

MaxCorrupt == 1   \* unparseable entries of the input directory
MaxNameLen == 3   \* length of a name given to sanitize_filename directly
MaxFiles   == 2   \* length of a list given to render_index directly
MaxSheets  == 2   \* sheets of a workbook given to render_workbook directly

SeqsUpTo(S, n) == UNION {[1..m -> S] : m \in 0..n}

EffortRaw  == ORDERED_XLSX[12]
EffortData == ORDERED_XLSX[13]
A_xlsx     == <<"A">> \o DotXlsx
B_xlsx     == <<"B">> \o DotXlsx
AspB_xlsx  == <<"a"," ","b">> \o DotXlsx
AusB_xlsx  == <<"a","_","b">> \o DotXlsx
QandA_xlsx == <<"Q","&","A">> \o DotXlsx
Notes_txt  == <<"n","o","t","e","s",".","t","x","t">>

\* what --xlsx-dir may hold: two listed names whose list order is not their
\* sorted order, unlisted workbooks (two of them sanitising to one page
\* name) and a file that is no workbook
DirEntries ==
  {EffortRaw, EffortData, A_xlsx, B_xlsx, AspB_xlsx, AusB_xlsx, Notes_txt}

OutArgs    == { <<".">>, <<"s","i","t","e">> }
SheetsArgs == { <<"s","h","e","e","t","s">>, <<"a","/","b">>, <<".">> }

Data_1  == <<"D","a","t","a"," ","1">>
Data_h1 == <<"D","a","t","a","-","1">>
QandA   == <<"-","Q","&","A","-">>
Tab     == <<"T","a","b">>
SheetNames == {Data_1, Data_h1, QandA, Tab}

MainBooks  == { <<Data_1, Data_h1>>, <<Tab>> }
NameChars  == {"a", "Z", "7", "-", "_", ".", " ", "&"}
IndexNames == {A_xlsx, B_xlsx, AspB_xlsx, AusB_xlsx, QandA_xlsx}

NoFiles == [q \in {} |-> <<>>]

InitMain ==
  /\ pc = "main"
  /\ dir \in SUBSET DirEntries
  /\ corrupt \in {c \in SUBSET dir : Cardinality(c) <= MaxCorrupt}
  /\ \E b \in MainBooks : book = [n \in dir |-> b]
  /\ out_arg \in OutArgs
  /\ sheets_arg \in SheetsArgs
  /\ dirs \in { {<<>>}, Prefixes(SheetsDir(out_arg, sheets_arg)) }
  /\ dirs0 = dirs
  /\ files = NoFiles
  /\ found = <<>>
  /\ k = 0
  /\ stdout = <<>>
  /\ events = <<>>
  /\ status = "running"
  /\ arg = <<>>
  /\ ret = <<>>

InitSanitize ==
  /\ pc = "call_sanitize"
  /\ arg \in SeqsUpTo(NameChars, MaxNameLen)
  /\ ret = <<>>
  /\ dir = {} /\ corrupt = {} /\ book = <<>>
  /\ out_arg = <<".">> /\ sheets_arg = <<"s","h","e","e","t","s">>
  /\ dirs = {<<>>} /\ dirs0 = dirs
  /\ files = NoFiles /\ found = <<>> /\ k = 0
  /\ stdout = <<>> /\ events = <<>> /\ status = "running"

InitIndex ==
  /\ pc = "call_index"
  /\ found \in SeqsUpTo(IndexNames, MaxFiles)
  /\ out_arg \in OutArgs
  /\ sheets_arg \in SheetsArgs
  /\ dirs = Prefixes(SheetsDir(out_arg, sheets_arg))
  /\ dirs0 = dirs
  /\ dir = {} /\ corrupt = {} /\ book = <<>>
  /\ files = NoFiles /\ k = 0
  /\ stdout = <<>> /\ events = <<>> /\ status = "running"
  /\ arg = <<>> /\ ret = <<>>

InitRender ==
  /\ pc = "call_render"
  /\ dir = {A_xlsx}
  /\ corrupt = {}
  /\ book \in [dir -> SeqsUpTo(SheetNames, MaxSheets) \ {<<>>}]
  /\ found = <<A_xlsx>>
  /\ out_arg = <<".">> /\ sheets_arg = <<"s","h","e","e","t","s">>
  /\ dirs = Prefixes(SheetsDir(out_arg, sheets_arg))
  /\ dirs0 = dirs
  /\ files = NoFiles /\ k = 1
  /\ stdout = <<>> /\ events = <<>> /\ status = "running"
  /\ arg = <<>> /\ ret = <<>>

Init == InitMain \/ InitSanitize \/ InitIndex \/ InitRender

(***************************************************************************)
(* main                                                                    *)
(***************************************************************************)

\* xlsx_dir.glob("*.xlsx")
Glob(entries) == {n \in entries : EndsWith(n, DotXlsx)}

\* sorted(names)
RECURSIVE Sorted(_)
Sorted(S) ==
  IF S = {} THEN <<>>
  ELSE LET m == CHOOSE x \in S : \A y \in S \ {x} : StrLess(x, y)
       IN <<m>> \o Sorted(S \ {m})

\* InList gone wrong: the present listed names in sorted order, not in the
\* order of the list
InList_Sorted(entries) ==
  Sorted({n \in entries : \E i \in 1..Len(ORDERED_XLSX) : ORDERED_XLSX[i] = n})

\* [name for name in ORDERED_XLSX if (xlsx_dir / name).exists()]
InList(entries) ==
  LET exists(name) == name \in entries IN SelectSeq(ORDERED_XLSX, exists)

\* the "[skip] not found" lines, one per absent listed name, in list order
SkipLines(entries) ==
  LET absent(name) == name \notin entries
      missing == SelectSeq(ORDERED_XLSX, absent)
  IN [i \in 1..Len(missing) |-> [tag |-> "skip", path |-> <<missing[i]>>]]

\* sheets_dir.mkdir(parents=True, exist_ok=True)
Mkdir ==
  /\ pc = "main"
  /\ dirs' = dirs \cup Prefixes(SheetsDir(out_arg, sheets_arg))
  /\ pc' = "select"
  /\ UNCHANGED <<dir, corrupt, book, out_arg, sheets_arg, dirs0, files, found, k,
                 stdout, events, status, arg, ret>>

\* mkdir raises OSError at the first directory it cannot create; the
\* parents it made before that stay
MkdirFails ==
  /\ pc = "main"
  /\ LET sd == SheetsDir(out_arg, sheets_arg) IN
       \E n \in 0..(Len(sd) - 1) :
         /\ SubSeq(sd, 1, n + 1) \notin dirs
         /\ dirs' = dirs \cup Prefixes(SubSeq(sd, 1, n))
  /\ status' = "traceback"
  /\ pc' = "done"
  /\ UNCHANGED <<dir, corrupt, book, out_arg, sheets_arg, dirs0, files, found,
                 k, stdout, events, arg, ret>>

\* for name in ORDERED_XLSX: found.append(p) if p.exists() else print skip
SelectOrdered ==
  /\ pc = "select"
  /\ found' = InList(dir)
  /\ stdout' = stdout \o SkipLines(dir)
  /\ pc' = "fallback"
  /\ UNCHANGED <<dir, corrupt, book, out_arg, sheets_arg, dirs0, dirs, files, k,
                 events, status, arg, ret>>

\* if not found: found = sorted(xlsx_dir.glob("*.xlsx"))
ScanDirectory ==
  /\ pc = "fallback"
  /\ found' = IF found = <<>> THEN Sorted(Glob(dir)) ELSE found
  /\ pc' = "check"
  /\ UNCHANGED <<dir, corrupt, book, out_arg, sheets_arg, dirs0, dirs, files, k,
                 stdout, events, status, arg, ret>>

\* ExitNoFiles gone wrong: the empty list does not stop the run, which goes
\* on to the (empty) loop and the index
ExitNoFiles_Continue ==
  /\ pc = "check"
  /\ found = <<>>
  /\ k' = 1
  /\ pc' = "render"
  /\ UNCHANGED <<dir, corrupt, book, out_arg, sheets_arg, dirs0, dirs, files,
                 found, stdout, events, status, arg, ret>>

\* if not found: raise SystemExit("No .xlsx files found in ...")
ExitNoFiles ==
  /\ pc = "check"
  /\ found = <<>>
  /\ status' = "exit1"
  /\ pc' = "done"
  /\ UNCHANGED <<dir, corrupt, book, out_arg, sheets_arg, dirs0, dirs, files, found,
                 k, stdout, events, arg, ret>>

\* entering "for p in found"
EnterLoop ==
  /\ pc = "check"
  /\ found # <<>>
  /\ k' = 1
  /\ pc' = "render"
  /\ UNCHANGED <<dir, corrupt, book, out_arg, sheets_arg, dirs0, dirs, files, found,
                 stdout, events, status, arg, ret>>

\* render_workbook(p, out_page, ...) up to the last read of the workbook:
\* pd.ExcelFile and pd.read_excel of every sheet succeed
RenderOpen ==
  /\ pc = "render"
  /\ k <= Len(found)
  /\ found[k] \notin corrupt
  /\ events' = Append(events, [ev |-> "render", name |-> found[k]])
  /\ pc' = "write"
  /\ UNCHANGED <<dir, corrupt, book, out_arg, sheets_arg, dirs0, dirs, files, found,
                 k, stdout, status, arg, ret>>

\* RenderOpenFails gone wrong: the failure is caught and the loop goes on
\* with the next workbook
RenderOpenFails_Caught ==
  /\ pc = "render"
  /\ k <= Len(found)
  /\ found[k] \in corrupt
  /\ events' = Append(events, [ev |-> "render", name |-> found[k]])
  /\ k' = k + 1
  /\ UNCHANGED <<pc, dir, corrupt, book, out_arg, sheets_arg, dirs0, dirs,
                 files, found, stdout, status, arg, ret>>

\* pd.ExcelFile or pd.read_excel raises: nothing catches it
RenderOpenFails ==
  /\ pc = "render"
  /\ k <= Len(found)
  /\ found[k] \in corrupt
  /\ events' = Append(events, [ev |-> "render", name |-> found[k]])
  /\ status' = "traceback"
  /\ pc' = "done"
  /\ UNCHANGED <<dir, corrupt, book, out_arg, sheets_arg, dirs0, dirs, files, found,
                 k, stdout, arg, ret>>

\* RenderWrite gone wrong: the page is kept in memory and not written before
\* the next workbook begins
RenderWrite_Deferred ==
  /\ pc = "write"
  /\ stdout' = Append(stdout, [tag |-> "ok",
                               path |-> OutPage(out_arg, sheets_arg, found[k])])
  /\ events' = Append(events, [ev |-> "wrote_page", name |-> found[k]])
  /\ k' = k + 1
  /\ pc' = "render"
  /\ UNCHANGED <<dir, corrupt, book, out_arg, sheets_arg, dirs0, dirs, files,
                 found, status, arg, ret>>

\* out_path.write_text(...) succeeds, render_workbook returns, main prints
\* "[ok] wrote" and goes to the next p
RenderWrite ==
  /\ pc = "write"
  /\ LET out_page == OutPage(out_arg, sheets_arg, found[k]) IN
       /\ Parent(out_page) \in dirs
       /\ files' = WriteText(files, out_page,
                             PageDoc(found[k], book[found[k]], BackHref))
       /\ stdout' = Append(stdout, [tag |-> "ok", path |-> out_page])
  /\ events' = Append(events, [ev |-> "wrote_page", name |-> found[k]])
  /\ k' = k + 1
  /\ pc' = "render"
  /\ UNCHANGED <<dir, corrupt, book, out_arg, sheets_arg, dirs0, dirs, found,
                 status, arg, ret>>

\* out_path.write_text(...) raises OSError: nothing catches it
RenderWriteFails ==
  /\ pc = "write"
  /\ status' = "traceback"
  /\ pc' = "done"
  /\ UNCHANGED <<dir, corrupt, book, out_arg, sheets_arg, dirs0, dirs, files, found,
                 k, stdout, events, arg, ret>>

\* after the loop: render_index(found, out_dir / "spreadsheets.html", ...),
\* its write succeeds, main prints "[ok] wrote" and returns
IndexWrite ==
  /\ pc = "render"
  /\ k > Len(found)
  /\ Parent(IndexPath(out_arg)) \in dirs
  /\ files' = WriteText(files, IndexPath(out_arg), IndexDoc(found, sheets_arg))
  /\ events' = events \o <<[ev |-> "index", name |-> <<>>],
                           [ev |-> "wrote_index", name |-> <<>>]>>
  /\ stdout' = Append(stdout, [tag |-> "ok", path |-> IndexPath(out_arg)])
  /\ status' = "ok"
  /\ pc' = "done"
  /\ UNCHANGED <<dir, corrupt, book, out_arg, sheets_arg, dirs0, dirs, found, k,
                 arg, ret>>

\* render_index's write_text raises OSError
IndexWriteFails ==
  /\ pc = "render"
  /\ k > Len(found)
  /\ events' = Append(events, [ev |-> "index", name |-> <<>>])
  /\ status' = "traceback"
  /\ pc' = "done"
  /\ UNCHANGED <<dir, corrupt, book, out_arg, sheets_arg, dirs0, dirs, files, found,
                 k, stdout, arg, ret>>

(***************************************************************************)
(* Direct calls of the three functions                                     *)
(***************************************************************************)

CallSanitize ==
  /\ pc = "call_sanitize"
  /\ ret' = sanitize_filename(arg)
  /\ pc' = "sanitized"
  /\ UNCHANGED <<dir, corrupt, book, out_arg, sheets_arg, dirs0, dirs, files, found,
                 k, stdout, events, status, arg>>

\* render_index(found, out_dir / "spreadsheets.html", sheets_arg)
CallRenderIndex ==
  /\ pc = "call_index"
  /\ Parent(IndexPath(out_arg)) \in dirs
  /\ files' = WriteText(files, IndexPath(out_arg), IndexDoc(found, sheets_arg))
  /\ pc' = "indexed"
  /\ UNCHANGED <<dir, corrupt, book, out_arg, sheets_arg, dirs0, dirs, found, k,
                 stdout, events, status, arg, ret>>

\* render_workbook(xlsx_dir / found[1], page path, "../spreadsheets.html")
CallRenderWorkbook ==
  /\ pc = "call_render"
  /\ found[k] \notin corrupt
  /\ LET out_page == OutPage(out_arg, sheets_arg, found[k]) IN
       /\ Parent(out_page) \in dirs
       /\ files' = WriteText(files, out_page,
                             PageDoc(found[k], book[found[k]], BackHref))
  /\ pc' = "rendered"
  /\ UNCHANGED <<dir, corrupt, book, out_arg, sheets_arg, dirs0, dirs, found, k,
                 stdout, events, status, arg, ret>>

Next ==
  \/ Mkdir
  \/ MkdirFails
  \/ SelectOrdered
  \/ ScanDirectory
  \/ ExitNoFiles
  \/ EnterLoop
  \/ RenderOpen
  \/ RenderOpenFails
  \/ RenderWrite
  \/ RenderWriteFails
  \/ IndexWrite
  \/ IndexWriteFails
  \/ CallSanitize
  \/ CallRenderIndex
  \/ CallRenderWorkbook

Spec == Init /\ [][Next]_vars

(***************************************************************************)
(* Vocabulary of the properties                                            *)
(***************************************************************************)

\* main has settled the list of workbooks it will process
Selected ==
  \/ pc \in {"check", "render", "write"}
  \/ pc = "done" /\ (status \in {"ok", "exit1"} \/ events # <<>>)

\* position of a listed name in ORDERED_XLSX
ListPos(name) == CHOOSE i \in 1..Len(ORDERED_XLSX) : ORDERED_XLSX[i] = name

Listed == {ORDERED_XLSX[i] : i \in 1..Len(ORDERED_XLSX)}

\* the names of the events of one kind, in the order they happened
NamesOf(kind) ==
  LET is(e) == e.ev = kind
      sel == SelectSeq(events, is)
  IN [i \in 1..Len(sel) |-> sel[i].name]

IsPrefix(s, t) == Len(s) <= Len(t) /\ s = SubSeq(t, 1, Len(s))

\* an href resolved against the directory of the document holding it, as a
\* browser does: "." and empty segments are dropped, ".." leaves a
\* directory
RECURSIVE Walk(_, _)
Walk(at, segs) ==
  IF segs = <<>> THEN at
  ELSE LET c == Head(segs)
           to == IF c = <<>> \/ c = Dot THEN at
                 ELSE IF c = DotDot
                      THEN IF at # <<>> /\ at[Len(at)] # DotDot
                           THEN SubSeq(at, 1, Len(at) - 1)
                           ELSE Append(at, DotDot)
                      ELSE Append(at, c)
       IN Walk(to, Tail(segs))

ResolveHref(base_dir, href) == Walk(base_dir, SplitSlash(href))

\* the pages of the output tree
Pages == {q \in DOMAIN files : files[q].kind = "page"}

(***************************************************************************)
(* C1: the workbooks main processes are the listed names present in the    *)
(* input directory, in list order, with one skip notice per absent listed  *)
(* name, whenever at least one listed name is present; otherwise they are  *)
(* all the *.xlsx entries of the directory in lexicographic order.  The    *)
(* renderer is called on them in that order and on nothing else.           *)
(***************************************************************************)
C1_Selection ==
  Selected =>
    LET present == dir \cap Listed
        names == {found[i] : i \in 1..Len(found)}
    IN /\ Len(found) = Cardinality(names)
       /\ IF present # {}
          THEN /\ names = present
               /\ \A i, j \in 1..Len(found) :
                    i < j => ListPos(found[i]) < ListPos(found[j])
          ELSE /\ names = {n \in dir : EndsWith(n, DotXlsx)}
               /\ \A i, j \in 1..Len(found) :
                    i < j => StrLess(found[i], found[j])
       /\ \A n \in Listed \ dir :
            \E i \in 1..Len(stdout) :
              stdout[i] = [tag |-> "skip", path |-> <<n>>]
       /\ IsPrefix(NamesOf("render"), found)
       /\ (status = "ok" => NamesOf("wrote_page") = found)

\* a completed run over a directory holding both listed names, in an order
\* that is not their sorted order, beside unlisted workbooks
C1_Witness ==
  /\ pc = "done" /\ status = "ok"
  /\ {EffortRaw, EffortData, A_xlsx} \subseteq dir
  /\ found = <<EffortRaw, EffortData>>
  /\ StrLess(EffortData, EffortRaw)

(***************************************************************************)
(* C2 as stated: when no workbook is found the program exits with a        *)
(* non-zero status, writes no file and creates nothing under the output    *)
(* directory.                                                              *)
(***************************************************************************)
C2_NothingCreated ==
  (pc = "done" /\ status = "exit1") =>
    /\ files = NoFiles
    /\ dirs = dirs0

(***************************************************************************)
(* C2, amended: when no workbook is found the run ends with a non-zero     *)
(* status (SystemExit once the sheets directory is made), it writes no     *)
(* page and no index and calls no renderer, and all it creates is the      *)
(* sheets directory <out-dir>/<sheets-dir> with its missing parents.       *)
(***************************************************************************)
C2_NoFilesOnlySheetsDir ==
  (pc = "done" /\ dir \cap Listed = {} /\ Glob(dir) = {}) =>
    /\ status \in {"exit1", "traceback"}
    /\ files = NoFiles
    /\ events = <<>>
    /\ dirs \subseteq dirs0 \cup Prefixes(SheetsDir(out_arg, sheets_arg))
    /\ (status = "exit1" =>
          dirs = dirs0 \cup Prefixes(SheetsDir(out_arg, sheets_arg)))

\* the exit with no workbook, in a run that had to make the sheets directory
C2_Witness ==
  /\ pc = "done" /\ status = "exit1"
  /\ dir = {Notes_txt}
  /\ SheetsDir(out_arg, sheets_arg) \notin dirs0
  /\ SheetsDir(out_arg, sheets_arg) \in dirs

(***************************************************************************)
(* C3: the items of the index render_index writes are the input list       *)
(* position by position: as many items as names, repeated names included,  *)
(* item i showing the (escaped) name i and linking to                      *)
(* <sheets-dir>/<sanitize_filename(name i)>.  For the list A.xlsx, B.xlsx  *)
(* and the default sheets directory the items are A.xlsx -> sheets/A.html  *)
(* and B.xlsx -> sheets/B.html; so they are after main has run on a        *)
(* directory whose workbooks are A.xlsx and B.xlsx.                        *)
(***************************************************************************)
C3_IndexKeepsInput ==
  (pc = "indexed" \/ (pc = "done" /\ status = "ok")) =>
    /\ IndexPath(out_arg) \in DOMAIN files
    /\ LET items == files[IndexPath(out_arg)].items IN
         /\ Len(items) = Len(found)
         /\ \A i \in 1..Len(found) :
              /\ items[i].text = HtmlEscape(found[i])
              /\ items[i].href =
                   sheets_arg \o <<"/">> \o sanitize_filename(found[i])
         /\ (found = <<A_xlsx, B_xlsx>>
               /\ sheets_arg = <<"s","h","e","e","t","s">>) =>
              items =
                << [href |-> <<"s","h","e","e","t","s","/","A",".","h","t","m","l">>,
                    text |-> <<"A",".","x","l","s","x">>],
                   [href |-> <<"s","h","e","e","t","s","/","B",".","h","t","m","l">>,
                    text |-> <<"B",".","x","l","s","x">>] >>
    /\ (pc = "done" /\ Glob(dir) = {A_xlsx, B_xlsx}) => found = <<A_xlsx, B_xlsx>>

\* render_index has written the index of a list that repeats a name
C3_Witness ==
  /\ pc = "indexed"
  /\ found = <<A_xlsx, A_xlsx>>
  /\ Len(files[IndexPath(out_arg)].items) = 2

(***************************************************************************)
(* C4: a failure of render_workbook (the workbook cannot be parsed or the  *)
(* page cannot be written) ends the run there: the failed call is the last *)
(* thing main does, no later workbook is rendered, no index is written and *)
(* the run does not end normally.  So an index written by main lists only  *)
(* workbooks whose pages this run has written.                             *)
(***************************************************************************)
C4_FailureAborts ==
  /\ \A i \in 1..Len(events) :
       (events[i].ev = "render" /\ i < Len(events)) =>
         events[i + 1] = [ev |-> "wrote_page", name |-> events[i].name]
  /\ (pc = "done" /\ events # <<>> /\ events[Len(events)].ev = "render") =>
       /\ status = "traceback"
       /\ IndexPath(out_arg) \notin DOMAIN files
       /\ NamesOf("index") = <<>>
       /\ NamesOf("render") = SubSeq(found, 1, Len(NamesOf("render")))
       /\ NamesOf("wrote_page") = SubSeq(found, 1, Len(NamesOf("render")) - 1)
  /\ (pc \in {"main", "select", "fallback", "check", "render", "write", "done"}
        /\ IndexPath(out_arg) \in DOMAIN files) =>
       /\ status = "ok"
       /\ NamesOf("wrote_page") = found
       /\ \A i \in 1..Len(found) :
            OutPage(out_arg, sheets_arg, found[i]) \in Pages

\* a run that failed on a workbook after writing a page, with a workbook
\* still to come
C4_Witness ==
  /\ pc = "done" /\ status = "traceback"
  /\ Len(found) = 3
  /\ NamesOf("render") = SubSeq(found, 1, 2)
  /\ NamesOf("wrote_page") = SubSeq(found, 1, 1)
  /\ found[2] \in corrupt

(***************************************************************************)
(* C5: what main does is, in this order and with nothing in between: for   *)
(* each selected workbook one call of the renderer followed by the write   *)
(* of its page, then one call of the index builder and the write of the    *)
(* index.  When the renderer is called on a workbook the pages of all the  *)
(* workbooks before it are on disk.                                        *)
(***************************************************************************)
C5_Sequential ==
  LET perBook == [i \in 1..Len(found) |->
                    << [ev |-> "render", name |-> found[i]],
                       [ev |-> "wrote_page", name |-> found[i]] >>]
      whole == Join(perBook) \o << [ev |-> "index", name |-> <<>>],
                                   [ev |-> "wrote_index", name |-> <<>>] >>
  IN /\ Selected => IsPrefix(events, whole)
     /\ (pc = "done" /\ status = "ok") => events = whole
     /\ (pc = "write") =>
          /\ events[Len(events)] = [ev |-> "render", name |-> found[k]]
          /\ \A j \in 1..(k - 1) :
               OutPage(out_arg, sheets_arg, found[j]) \in Pages
     /\ (pc = "render" /\ k <= Len(found)) =>
          /\ Len(events) = 2 * (k - 1)
          /\ IndexPath(out_arg) \notin DOMAIN files

\* a completed run over three workbooks
C5_Witness ==
  /\ pc = "done" /\ status = "ok"
  /\ Len(found) = 3
  /\ Len(events) = 8

(***************************************************************************)
(* C6 as stated: the anchor of a sheet is its name with every character    *)
(* that is not alphanumeric replaced by "-", the "-" at both ends trimmed, *)
(* lowercased; the sheets "Data 1" and "Data-1" both get the anchor        *)
(* data-1, and the page is written with both sections.                     *)
(***************************************************************************)
C6_AnchorIsDerivedName ==
  (pc = "rendered") =>
    LET page == files[OutPage(out_arg, sheets_arg, found[1])]
        names == book[found[1]]
        n == Len(names)
    IN /\ Len(page.body) = 2 * n
       /\ \A i \in 1..n :
            page.body[n + i].id = Lower(StripHyphens(Hyphenate(names[i])))
       /\ (names = <<Data_1, Data_h1>>) =>
            /\ page.body[3].id = <<"d","a","t","a","-","1">>
            /\ page.body[4].id = <<"d","a","t","a","-","1">>

(***************************************************************************)
(* C6, amended: the anchor of a sheet is the fixed prefix "sheet-"         *)
(* followed by its name with every character that is not alphanumeric      *)
(* replaced by "-", the "-" at both ends trimmed, lowercased: it holds     *)
(* only lowercase letters, digits and "-", and after the prefix it neither *)
(* starts nor ends with "-".  The sheets "Data 1" and "Data-1" both get    *)
(* the anchor sheet-data-1, and the page is written with both sections.    *)
(***************************************************************************)
C6_AnchorIsPrefixedDerivedName ==
  (pc = "rendered") =>
    /\ OutPage(out_arg, sheets_arg, found[1]) \in Pages
    /\ LET page == files[OutPage(out_arg, sheets_arg, found[1])]
           names == book[found[1]]
           n == Len(names)
       IN /\ Len(page.body) = 2 * n
          /\ \A i \in 1..n :
               LET id == page.body[n + i].id
                   rest == SubSeq(id, 7, Len(id))
                   dashed == [j \in 1..Len(names[i]) |->
                                IF IsAlnum(names[i][j])
                                THEN LowerChar(names[i][j]) ELSE "-"]
               IN /\ page.body[n + i].el = "section"
                  /\ SubSeq(id, 1, 6) = <<"s","h","e","e","t","-">>
                  /\ \A j \in 1..Len(rest) :
                       \/ rest[j] = "-"
                       \/ IsAlnum(rest[j]) /\ LowerChar(rest[j]) = rest[j]
                  /\ rest # <<>> => (rest[1] # "-" /\ rest[Len(rest)] # "-")
                  /\ \E a, b \in 0..Len(dashed) :
                       /\ a + Len(rest) + b = Len(dashed)
                       /\ SubSeq(dashed, a + 1, a + Len(rest)) = rest
                       /\ \A j \in (1..a) \cup ((Len(dashed) - b + 1)..Len(dashed)) :
                            dashed[j] = "-"
          /\ (names = <<Data_1, Data_h1>>) =>
               /\ page.body[3].id = <<"s","h","e","e","t","-","d","a","t","a","-","1">>
               /\ page.body[4].id = <<"s","h","e","e","t","-","d","a","t","a","-","1">>

\* the page of a workbook whose sheets are "Data 1" and "Data-1" is written
C6_Witness ==
  /\ pc = "rendered"
  /\ book[found[1]] = <<Data_1, Data_h1>>
  /\ Len(files[OutPage(out_arg, sheets_arg, found[1])].body) = 4

(***************************************************************************)
(* C7: in every page render_workbook writes, the body is the navigation    *)
(* links of all the sheets in stored sheet order followed by the sections  *)
(* of all the sheets in stored sheet order, and the identifier of the i-th *)
(* link is the identifier of the i-th section, also when two sheets get    *)
(* the same identifier.                                                    *)
(***************************************************************************)
C7_NavMatchesSections ==
  \A q \in Pages :
    LET page == files[q]
        names == book[CHOOSE w \in dir : /\ HtmlEscape(w) = page.title
                                         /\ OutPage(out_arg, sheets_arg, w) = q]
        n == Len(names)
    IN /\ Len(page.body) = 2 * n
       /\ \A i \in 1..n :
            /\ page.body[i].el = "a"
            /\ page.body[n + i].el = "section"
            /\ page.body[i].text = HtmlEscape(names[i])
            /\ page.body[n + i].text = HtmlEscape(names[i])
            /\ page.body[i].id = page.body[n + i].id

\* a written page where two different sheets have one identifier
C7_Witness ==
  \E q \in Pages :
    /\ Len(files[q].body) = 4
    /\ files[q].body[3].text # files[q].body[4].text
    /\ files[q].body[3].id = files[q].body[4].id
    /\ files[q].body[1].id = files[q].body[2].id

C9_LaterOverwrites ==
  (pc = "done" /\ status = "ok") =>
    \A i, j \in 1..Len(found) :
      (i < j /\ sanitize_filename(found[i]) = sanitize_filename(found[j])
             /\ ~ \E m \in (j + 1)..Len(found) :
                    sanitize_filename(found[m]) = sanitize_filename(found[j])) =>
        LET q == OutPage(out_arg, sheets_arg, found[j])
            items == files[IndexPath(out_arg)].items
        IN /\ q \in Pages
           /\ files[q] = PageDoc(found[j], book[found[j]], BackHref)
           /\ files[q].title # HtmlEscape(found[i])
           /\ Cardinality(Pages)
                = Cardinality({sanitize_filename(found[m]) : m \in 1..Len(found)})
           /\ Cardinality(Pages) < Len(found)
           /\ Len(items) = Len(found)
           /\ items[i].text = HtmlEscape(found[i])
           /\ items[j].text = HtmlEscape(found[j])
           /\ items[i].href = items[j].href
           /\ ResolveHref(OutDir(out_arg), items[j].href) = q

\* a completed run over "a b.xlsx" and "a_b.xlsx", both written to a_b.html
C9_Witness ==
  /\ pc = "done" /\ status = "ok"
  /\ found = <<AspB_xlsx, AusB_xlsx>>
  /\ Cardinality(Pages) = 1

(***************************************************************************)
(* C10: after a completed run, whatever --out-dir and --sheets-dir are,    *)
(* the href of every index item, resolved against the directory of the     *)
(* index, is a page written in this run, and the back-link of every page,  *)
(* resolved against the directory of the page, is <out-dir>/               *)
(* spreadsheets.html.                                                      *)
(***************************************************************************)
C10_LinksResolve ==
  (pc = "done" /\ status = "ok") =>
    /\ \A i \in 1..Len(found) :
         ResolveHref(Parent(IndexPath(out_arg)),
                     files[IndexPath(out_arg)].items[i].href) \in Pages
    /\ \A q \in Pages :
         ResolveHref(Parent(q), files[q].back) = IndexPath(out_arg)

====
